---- MODULE Spec2Model ----
(***************************************************************************)
(* Eco-Trekker (src/main.py): a Flask application with two routes.         *)
(*   GET  /           home()      renders templates/index.html             *)
(*   POST /calculate  calculate() validates the form fields start, end and *)
(*                                mode and answers with a carbon footprint *)
(*                                or with {error: message}.                *)
(* Requests are served by threads of the development server, so the lines  *)
(* of calculate() of several requests interleave.  Every request runs in   *)
(* its own slot r \in Reqs; a slot is reused for the next request once its *)
(* response has been sent.                                                 *)
(*                                                                         *)
(* Python values: None is <<>>, the str s is <<s>>.  Floats are fixed      *)
(* point: emission factors in g CO2 per km (0.120 kg/km = 120), footprints *)
(* in g CO2 (12.0 kg = 12000).  distance is the int 100 as in the source.  *)
(***************************************************************************)
EXTENDS Integers, Sequences, FiniteSets, TLC

\* ---------------------------------------------------------------- bounds
NumReqs == 2
MaxDistance == 12

Reqs == 1..NumReqs

\* ---------------------------------------------------------- Python values
None == <<>>
PyStr(s) == <<s>>
Unbound == <<"unbound", "local">>

TruthyNoneOnly(v) == v # None
TruthyStripped(v) == v # None /\ v # PyStr("") /\ v # PyStr(" ")
\* truth value of a str-or-None: None and "" are falsy, all else truthy
Truthy(v) == v # None /\ v # PyStr("")

DictGetWrongDefault(d, k, default) == IF k # None /\ k[1] \in DOMAIN d THEN d[k[1]] ELSE 1
\* dict.get(k, default): the value of k, the default when k is no key
DictGet(d, k, default) == IF k # None /\ k[1] \in DOMAIN d THEN d[k[1]] ELSE default

TableAfterPop(d, k, default) ==
    IF k # None /\ k[1] \in DOMAIN d THEN [x \in DOMAIN d \ {k[1]} |-> d[x]] ELSE d
TableAfterSetdefault(d, k, default) ==
    IF k # None /\ k[1] \notin DOMAIN d THEN (k[1] :> default) @@ d ELSE d
\* dict.get leaves the dict as it is
TableAfterGet(d, k, default) == d

\* ---------------------------------------------------- EMISSION_FACTORS
Modes == {"car", "bus", "train", "bicycle", "walking"}

InitialFactorsBusSlip ==
    [m \in Modes |-> CASE m = "car" -> 120 [] m = "bus" -> 680 [] m = "train" -> 45
                       [] m = "bicycle" -> 0 [] m = "walking" -> 0]
\* the dict literal of lines 18-24, in g CO2 per km
InitialFactors ==
    [m \in Modes |-> CASE m = "car" -> 120 [] m = "bus" -> 68 [] m = "train" -> 45
                       [] m = "bicycle" -> 0 [] m = "walking" -> 0]

\* distance = 100, line 42
PlaceholderDistance == 100

\* line 38
MissingMessage == "Missing required inputs!"

\* ------------------------------------------------------- request inputs
Fields == {"start", "end", "mode"}

FieldValues ==
    [k \in Fields |-> CASE k = "start" -> {"", " ", "Atlantis"}
                        [] k = "end" -> {"", "Atlantis"}
                        [] k = "mode" -> Modes \cup {"", "scooter"}]

AllStrings == UNION {FieldValues[k] : k \in Fields}

\* request.form of a POST: any subset of the fields, each with a string
Forms ==
    {f \in UNION {[S -> AllStrings] : S \in SUBSET Fields} :
        \A k \in DOMAIN f : f[k] \in FieldValues[k]}

EmptyForm == [k \in {} |-> ""]

\* modes and distances the estimator expression is applied to
EstModes == {PyStr(m) : m \in Modes \cup {"", " ", "scooter"}} \cup {None}
Distances == ((0 - MaxDistance)..MaxDistance) \cup {PlaceholderDistance}

VARIABLES EMISSION_FACTORS, route, form, pc, start, end, mode, distance,
          carbon_footprint, e, sent, estPc, estMode, estDistance, estResult

locals == <<start, end, mode, distance, carbon_footprint, e>>
handler == <<route, form, pc, start, end, mode, distance, carbon_footprint, e, sent>>
est == <<estPc, estMode, estDistance, estResult>>
vars == <<EMISSION_FACTORS, route, form, pc, start, end, mode, distance,
          carbon_footprint, e, sent, estPc, estMode, estDistance, estResult>>

\* ------------------------------------------------------------- helpers
\* MultiDict.get(key): the value, None when the key is absent
FormGet(f, k) == IF k \in DOMAIN f THEN PyStr(f[k]) ELSE None

requestShared(r) == form[CHOOSE q \in Reqs : pc[q] # "idle"]
\* flask.request is context local: it resolves to the request of the caller
request(r) == form[r]

estimateSum(m, d) == d + DictGet(EMISSION_FACTORS, m, 0)
\* distance * EMISSION_FACTORS.get(mode, 0.0), line 44
estimate(m, d) == d * DictGet(EMISSION_FACTORS, m, 0)

ValueError(msg) == [type |-> "ValueError", args |-> <<msg>>]
\* str(e) of an exception with one argument
str(x) == PyStr(x.args[1])

\* jsonify(dict): a 200 response whose JSON body is the dict
jsonify(d) == [status |-> 200, json |-> d]
render_template(name) == [status |-> 200, html |-> name]

TryBodyNarrow == {"l33", "l42", "l46"}
\* the statements inside try: ... except Exception (lines 32-55)
TryBody == {"l33", "l37", "l42", "l46"}

\* where control goes when the statement at pc[r] raises
RaiseTarget(r) == IF pc[r] \in TryBody THEN "l54" ELSE "propagated"

Terminal == {"idle", "done", "propagated"}

\* ---------------------------------------------------------------- Init
Init ==
    /\ EMISSION_FACTORS = InitialFactors
    /\ route = [r \in Reqs |-> "none"]
    /\ form = [r \in Reqs |-> EmptyForm]
    /\ pc = [r \in Reqs |-> "idle"]
    /\ start = [r \in Reqs |-> Unbound]
    /\ end = [r \in Reqs |-> Unbound]
    /\ mode = [r \in Reqs |-> Unbound]
    /\ distance = [r \in Reqs |-> Unbound]
    /\ carbon_footprint = [r \in Reqs |-> Unbound]
    /\ e = [r \in Reqs |-> Unbound]
    /\ sent = [r \in Reqs |-> <<>>]
    /\ estPc = "off"
    /\ estMode = None
    /\ estDistance = 0
    /\ estResult = Unbound

ResetLocals(r) ==
    /\ start' = [start EXCEPT ![r] = Unbound]
    /\ end' = [end EXCEPT ![r] = Unbound]
    /\ mode' = [mode EXCEPT ![r] = Unbound]
    /\ distance' = [distance EXCEPT ![r] = Unbound]
    /\ carbon_footprint' = [carbon_footprint EXCEPT ![r] = Unbound]
    /\ e' = [e EXCEPT ![r] = Unbound]

\* ------------------------------------------------------------- actions
\* a POST /calculate arrives and is dispatched to calculate()
ReceiveCalculate(r) ==
    /\ pc[r] \in Terminal
    /\ \E f \in Forms : form' = [form EXCEPT ![r] = f]
    /\ route' = [route EXCEPT ![r] = "/calculate"]
    /\ pc' = [pc EXCEPT ![r] = "l33"]
    /\ sent' = [sent EXCEPT ![r] = <<>>]
    /\ ResetLocals(r)
    /\ UNCHANGED <<EMISSION_FACTORS, est>>

\* a GET / arrives and is dispatched to home()
ReceiveHome(r) ==
    /\ pc[r] \in Terminal
    /\ form' = [form EXCEPT ![r] = EmptyForm]
    /\ route' = [route EXCEPT ![r] = "/"]
    /\ pc' = [pc EXCEPT ![r] = "l28"]
    /\ sent' = [sent EXCEPT ![r] = <<>>]
    /\ ResetLocals(r)
    /\ UNCHANGED <<EMISSION_FACTORS, est>>

\* return render_template('index.html')
home(r) ==
    /\ pc[r] = "l28"
    /\ sent' = [sent EXCEPT ![r] = Append(@, render_template("index.html"))]
    /\ pc' = [pc EXCEPT ![r] = "done"]
    /\ UNCHANGED <<EMISSION_FACTORS, route, form, locals, est>>

\* start, end, mode = request.form.get('start' / 'end' / 'mode'), lines 33-35;
\* the three reads touch only the form of the request's own context
ReadFields(r) ==
    /\ pc[r] = "l33"
    /\ start' = [start EXCEPT ![r] = FormGet(request(r), "start")]
    /\ end' = [end EXCEPT ![r] = FormGet(request(r), "end")]
    /\ mode' = [mode EXCEPT ![r] = FormGet(request(r), "mode")]
    /\ pc' = [pc EXCEPT ![r] = "l37"]
    /\ UNCHANGED <<EMISSION_FACTORS, route, form, distance,
                   carbon_footprint, e, sent, est>>

ValidateKnownMode(r) ==
    /\ pc[r] = "l37"
    /\ IF ~Truthy(start[r]) \/ ~Truthy(end[r]) \/ ~Truthy(mode[r])
          \/ mode[r][1] \notin Modes
       THEN /\ e' = [e EXCEPT ![r] = ValueError(MissingMessage)]
            /\ pc' = [pc EXCEPT ![r] = RaiseTarget(r)]
       ELSE /\ e' = e
            /\ pc' = [pc EXCEPT ![r] = "l42"]
    /\ UNCHANGED <<EMISSION_FACTORS, route, form, start, end, mode, distance,
                   carbon_footprint, sent, est>>
\* if not start or not end or not mode: raise ValueError(...)
Validate(r) ==
    /\ pc[r] = "l37"
    /\ IF ~Truthy(start[r]) \/ ~Truthy(end[r]) \/ ~Truthy(mode[r])
       THEN /\ e' = [e EXCEPT ![r] = ValueError(MissingMessage)]
            /\ pc' = [pc EXCEPT ![r] = RaiseTarget(r)]
       ELSE /\ e' = e
            /\ pc' = [pc EXCEPT ![r] = "l42"]
    /\ UNCHANGED <<EMISSION_FACTORS, route, form, start, end, mode, distance,
                   carbon_footprint, sent, est>>

\* distance = 100
\* carbon_footprint = distance * EMISSION_FACTORS.get(mode, 0.0)
Lookup(r) ==
    /\ pc[r] = "l42"
    /\ distance' = [distance EXCEPT ![r] = PlaceholderDistance]
    /\ carbon_footprint' =
           [carbon_footprint EXCEPT ![r] = estimate(mode[r], PlaceholderDistance)]
    /\ EMISSION_FACTORS' = TableAfterGet(EMISSION_FACTORS, mode[r], 0)
    /\ pc' = [pc EXCEPT ![r] = "l46"]
    /\ UNCHANGED <<route, form, start, end, mode, e, sent, est>>

\* return jsonify({'start': ..., 'carbon_footprint': carbon_footprint})
Respond(r) ==
    /\ pc[r] = "l46"
    /\ sent' = [sent EXCEPT ![r] = Append(@, jsonify(
                    [start |-> start[r], end |-> end[r], mode |-> mode[r],
                     distance |-> distance[r],
                     carbon_footprint |-> carbon_footprint[r]]))]
    /\ pc' = [pc EXCEPT ![r] = "done"]
    /\ UNCHANGED <<EMISSION_FACTORS, route, form, locals, est>>

\* except Exception as e: return jsonify({'error': str(e)})
Except(r) ==
    /\ pc[r] = "l54"
    /\ sent' = [sent EXCEPT ![r] = Append(@, jsonify([error |-> str(e[r])]))]
    /\ pc' = [pc EXCEPT ![r] = "done"]
    /\ UNCHANGED <<EMISSION_FACTORS, route, form, locals, est>>

\* one line of calculate() or home() of request r
Step(r) ==
    \/ home(r)
    \/ ReadFields(r)
    \/ Validate(r)
    \/ Lookup(r)
    \/ Respond(r)
    \/ Except(r)

Next ==
    \E r \in Reqs :
        \/ ReceiveCalculate(r)
        \/ ReceiveHome(r)
        \/ Step(r)

Spec == Init /\ [][Next]_vars

\* ------------------------------------------- the estimator on its own
\* The expression of line 44 applied to any mode and distance.
InitEst ==
    /\ EMISSION_FACTORS = InitialFactors
    /\ route = [r \in Reqs |-> "none"]
    /\ form = [r \in Reqs |-> EmptyForm]
    /\ pc = [r \in Reqs |-> "idle"]
    /\ start = [r \in Reqs |-> Unbound]
    /\ end = [r \in Reqs |-> Unbound]
    /\ mode = [r \in Reqs |-> Unbound]
    /\ distance = [r \in Reqs |-> Unbound]
    /\ carbon_footprint = [r \in Reqs |-> Unbound]
    /\ e = [r \in Reqs |-> Unbound]
    /\ sent = [r \in Reqs |-> <<>>]
    /\ estPc = "call"
    /\ estMode \in EstModes
    /\ estDistance \in Distances
    /\ estResult = Unbound

EstCall ==
    /\ estPc = "call"
    /\ estResult' = estimate(estMode, estDistance)
    /\ EMISSION_FACTORS' = TableAfterGet(EMISSION_FACTORS, estMode, 0)
    /\ estPc' = "returned"
    /\ UNCHANGED <<handler, estMode, estDistance>>

EstAgain ==
    /\ estPc = "returned"
    /\ estMode' \in EstModes
    /\ estDistance' \in Distances
    /\ estResult' = Unbound
    /\ estPc' = "call"
    /\ UNCHANGED <<EMISSION_FACTORS, handler>>

NextEst == EstCall \/ EstAgain

SpecEst == InitEst /\ [][NextEst]_vars

\* ------------------------------------------------------------ properties
DoneCalc(r) == pc[r] = "done" /\ route[r] = "/calculate"
Body(r) == sent[r][1].json
SuccessKeys == {"start", "end", "mode", "distance", "carbon_footprint"}
ErrorKeys == {"error"}
IsError(r) == DOMAIN Body(r) = ErrorKeys
IsSuccess(r) == DOMAIN Body(r) = SuccessKeys

\* a field of the submitted form is absent or the empty string
Missing(f) == \E k \in Fields : k \notin DOMAIN f \/ f[k] = ""

\* the documented factor of a mode, in g CO2 per km; 0 for any other mode
DocumentedFactor(m) ==
    CASE m = "car" -> 120 [] m = "bus" -> 68 [] m = "train" -> 45 [] OTHER -> 0

\* C1: a calculate request with start, end or mode absent or empty is answered
\* with an object whose only field is error, carrying the missing-input message.
C1_MissingInputIsError ==
    \A r \in Reqs :
        (DoneCalc(r) /\ Missing(form[r])) =>
            /\ Len(sent[r]) = 1
            /\ DOMAIN Body(r) = {"error"}
            /\ Body(r).error = PyStr("Missing required inputs!")

C1_Witness ==
    \E r \in Reqs :
        /\ DoneCalc(r)
        /\ "start" \notin DOMAIN form[r]
        /\ {"end", "mode"} \subseteq DOMAIN form[r]
        /\ form[r]["end"] # "" /\ form[r]["mode"] # ""
        /\ IsError(r)

\* C2: a calculate request with the three fields present and non-empty is
\* answered with its own start, end and mode, distance 100 and carbon_footprint
\* 100 x the factor of the mode (car 12.0 kg, bicycle 0.0).
C2_SuccessEchoAndFootprint ==
    \A r \in Reqs :
        (DoneCalc(r) /\ ~Missing(form[r])) =>
            /\ IsSuccess(r)
            /\ Body(r).start = PyStr(form[r]["start"])
            /\ Body(r).end = PyStr(form[r]["end"])
            /\ Body(r).mode = PyStr(form[r]["mode"])
            /\ Body(r).distance = 100
            /\ Body(r).carbon_footprint = 100 * DocumentedFactor(form[r]["mode"])
            /\ (form[r]["mode"] = "car" => Body(r).carbon_footprint = 12000)
            /\ (form[r]["mode"] = "bicycle" => Body(r).carbon_footprint = 0)

C2_Witness ==
    \E r \in Reqs :
        /\ DoneCalc(r) /\ ~Missing(form[r])
        /\ form[r]["mode"] = "car"
        /\ form[r]["start"] = form[r]["end"]
        /\ Body(r).carbon_footprint = 12000

\* C3: a non-empty mode outside the five known ones, with non-empty start and
\* end, gives a success response with carbon_footprint 0, not an error.
C3_UnknownModeIsZero ==
    \A r \in Reqs :
        (DoneCalc(r) /\ ~Missing(form[r]) /\ form[r]["mode"] \notin Modes) =>
            /\ IsSuccess(r)
            /\ Body(r).carbon_footprint = 0

C3_Witness ==
    \E r \in Reqs :
        /\ DoneCalc(r) /\ ~Missing(form[r])
        /\ form[r]["mode"] = "scooter"
        /\ IsSuccess(r)

\* C4: every calculate request gets exactly one response, of the success shape
\* or of the error shape; no exception leaves the handler and the handler never
\* stops before it has answered.
C4_OneWellFormedResponse ==
    \A r \in Reqs :
        route[r] = "/calculate" =>
            /\ pc[r] # "propagated"
            /\ pc[r] \in TryBody \cup {"l54", "done"}
            /\ pc[r] # "done" => (sent[r] = <<>> /\ ENABLED Step(r))
            /\ pc[r] = "done" =>
                /\ Len(sent[r]) = 1
                /\ sent[r][1].status = 200
                /\ IsSuccess(r) \/ IsError(r)

C4_Witness ==
    \E r, q \in Reqs :
        /\ DoneCalc(r) /\ DOMAIN form[r] = {} /\ IsError(r)
        /\ DoneCalc(q) /\ IsSuccess(q)

\* C5: a calculate request is answered with an error exactly when one of its
\* three fields is absent or empty; the contents of the fields do not matter.
C5_ErrorIffMissing ==
    \A r \in Reqs : DoneCalc(r) => (IsError(r) <=> Missing(form[r]))

C5_Witness ==
    \E r \in Reqs :
        /\ DoneCalc(r) /\ ~Missing(form[r])
        /\ form[r]["start"] = " "
        /\ form[r]["mode"] \notin Modes
        /\ IsSuccess(r)

\* C6: the emission factor table always maps exactly the five modes to their
\* initial factors; no request adds or changes an entry.
C6_TableNeverMutated ==
    /\ DOMAIN EMISSION_FACTORS = {"car", "bus", "train", "bicycle", "walking"}
    /\ \A m \in DOMAIN EMISSION_FACTORS :
        /\ EMISSION_FACTORS[m] = DocumentedFactor(m)
        /\ EMISSION_FACTORS[m] >= 0

C6_Witness ==
    \E r, q \in Reqs :
        /\ DoneCalc(r) /\ ~Missing(form[r]) /\ form[r]["mode"] = "scooter"
        /\ pc[q] = "done" /\ route[q] = "/"

\* C7: two calculate requests with identical start, end and mode get identical
\* responses, whatever else was handled before or in between.
C7_Idempotent ==
    \A r, q \in Reqs :
        (DoneCalc(r) /\ DoneCalc(q) /\ form[r] = form[q]) => sent[r] = sent[q]

C7_Witness ==
    \E r, q \in Reqs :
        /\ r # q
        /\ DoneCalc(r) /\ DoneCalc(q)
        /\ form[r] = form[q]
        /\ IsSuccess(r)
        /\ Body(r).carbon_footprint > 0

\* the response of calculate() to form f when no other request is in progress
HandledAlone(f) ==
    LET s == FormGet(f, "start")
        t == FormGet(f, "end")
        m == FormGet(f, "mode")
    IN  IF ~Truthy(s) \/ ~Truthy(t) \/ ~Truthy(m)
        THEN jsonify([error |-> str(ValueError(MissingMessage))])
        ELSE jsonify([start |-> s, end |-> t, mode |-> m,
                      distance |-> PlaceholderDistance,
                      carbon_footprint |->
                          PlaceholderDistance * DictGet(InitialFactors, m, 0)])

\* C8: with the lines of concurrent calculate requests interleaved, the response
\* of each request is the one it gets when handled alone, and every local of a
\* request holds a value of that request's own form.
C8_Isolation ==
    \A r \in Reqs :
        route[r] = "/calculate" =>
            /\ start[r] \in {Unbound, FormGet(form[r], "start")}
            /\ end[r] \in {Unbound, FormGet(form[r], "end")}
            /\ mode[r] \in {Unbound, FormGet(form[r], "mode")}
            /\ pc[r] = "done" => sent[r] = <<HandledAlone(form[r])>>

C8_Witness ==
    \E r, q \in Reqs :
        /\ DoneCalc(r) /\ IsSuccess(r)
        /\ route[q] = "/calculate" /\ pc[q] = "l42"
        /\ form[q]["start"] # form[r]["start"]
        /\ form[q]["mode"] # form[r]["mode"]

\* C9: the estimator returns distance x factor for a known mode, 0 for any other
\* mode and for distance 0, always returns a number and leaves the table alone.
C9_Estimate ==
    estPc = "returned" =>
        /\ estResult \in Int
        /\ (estMode # None /\ estMode[1] \in Modes /\ estDistance >= 0) =>
               estResult = estDistance * InitialFactors[estMode[1]]
        /\ (estMode = None \/ estMode[1] \notin Modes) => estResult = 0
        /\ estDistance = 0 => estResult = 0
        /\ EMISSION_FACTORS = InitialFactors

C9_Witness ==
    /\ estPc = "returned"
    /\ estMode = PyStr("bus")
    /\ estDistance = 3
    /\ estResult = 204

\* C10: the carbon_footprint of a success response lies between 0 and the car
\* value, is 0 exactly for bicycle, walking and unknown modes, and is ordered
\* car > bus > train > bicycle = walking.
ModeRank(m) ==
    CASE m = "car" -> 3 [] m = "bus" -> 2 [] m = "train" -> 1 [] OTHER -> 0

C10_FootprintRangeAndOrder ==
    \A r, q \in Reqs :
        (DoneCalc(r) /\ IsSuccess(r)) =>
            /\ Body(r).carbon_footprint >= 0
            /\ Body(r).carbon_footprint <= 12000
            /\ Body(r).carbon_footprint = 0 <=>
                   Body(r).mode \notin {PyStr("car"), PyStr("bus"), PyStr("train")}
            /\ (DoneCalc(q) /\ IsSuccess(q)) =>
                /\ ModeRank(Body(r).mode[1]) > ModeRank(Body(q).mode[1]) =>
                       Body(r).carbon_footprint > Body(q).carbon_footprint
                /\ ModeRank(Body(r).mode[1]) = ModeRank(Body(q).mode[1]) =>
                       Body(r).carbon_footprint = Body(q).carbon_footprint

C10_Witness ==
    \E r, q \in Reqs :
        /\ DoneCalc(r) /\ IsSuccess(r) /\ Body(r).mode = PyStr("bus")
        /\ DoneCalc(q) /\ IsSuccess(q) /\ Body(q).mode = PyStr("train")
        /\ Body(r).carbon_footprint > Body(q).carbon_footprint

====
